---- MODULE Spec2Model ----
(***************************************************************************)
(* The SystemRegistry of bevy_ecs (system/system_registry.rs): an          *)
(* append-only store of initialized systems, a label -> slot-index index,  *)
(* the run operations, the World forwarders built on resource_scope and    *)
(* the two Command adapters.                                               *)
(*                                                                         *)
(* The code is single threaded and every World-level operation runs to     *)
(* completion, so each operation is one action.  What the operation did on *)
(* the way (extracting the registry, initializing, executing and flushing  *)
(* stored systems, applying queued commands, panicking) is recorded, in    *)
(* order, in the variable log, and its return value in result.             *)
(***************************************************************************)
EXTENDS Integers, Sequences, FiniteSets, TLC

\* Bounds of the model.
MaxSystems == 3
MaxRuns == 3

VARIABLES
    systems,   \* SystemRegistry.systems: Vec<StoredSystem>
    labels,    \* SystemRegistry.labels: HashMap<Box<dyn SystemLabel>, Vec<usize>>
    world,     \* the rest of the World the systems act on
    panicked,  \* the thread has panicked: nothing runs after it
    call,      \* the last World-level operation and its arguments
    result,    \* what that operation returned
    log,       \* what that operation did, in order
    changed_since, \* history: per slot, was ChangeDetector marked changed (or
               \* added) after the slot's last execution, or did it never run
    auto_called \* history: the <<operation, system type>> pairs of the
               \* register_system and run_system calls made

vars ==
    <<systems, labels, world, panicked, call, result, log, changed_since,
      auto_called>>

----------------------------------------------------------------------------
\* Labels

\* SystemTypeIdLabel::<S>::new(): the automatic label of system type S.
SystemTypeIdLabel(S) == [kind |-> "type_id", name |-> S]

\* A user-chosen label value such as "count".
UserLabel(n) == [kind |-> "user", name |-> n]

NoLabel == [kind |-> "none", name |-> "none"]

\* Callback::new(system): a callback naming the system's automatic label.
Callback_new(S) == [label |-> SystemTypeIdLabel(S)]

----------------------------------------------------------------------------
\* The systems of the module's tests, and one system type that declares no
\* default label (the System trait's default: a system that is not a plain
\* function, e.g. a chain of two systems).

FunctionSystems ==
    {"count_up", "spawn_entity", "count_up_iff_changed", "doubling",
     "count_to_ten", "run_callback_count"}

\* System::default_labels: the labels a system type declares.
default_labels(S) ==
    IF S \in FunctionSystems THEN <<SystemTypeIdLabel(S)>> ELSE <<>>

\* Commands a system can queue.
SpawnCommand == [cmd |-> "spawn", system |-> "none", label |-> NoLabel]
RunSystemCommand_new(S) == [cmd |-> "run_system", system |-> S, label |-> NoLabel]
RunSystemsByLabelCommand(callback) ==
    [cmd |-> "run_systems_by_label", system |-> "none", label |-> callback.label]

\* One entry of log.
Ev(e, i) == [ev |-> e, idx |-> i]

----------------------------------------------------------------------------
\* Return values.

Unit == [kind |-> "unit", label |-> NoLabel, index |-> -1]
Ok == [kind |-> "Ok", label |-> NoLabel, index |-> -1]
Index(i) == [kind |-> "index", label |-> NoLabel, index |-> i]
\* Err(SystemRegistryError::LabelNotFound(label))
LabelNotFound(l) == [kind |-> "LabelNotFound", label |-> l, index |-> -1]
Panicked == [kind |-> "panic", label |-> NoLabel, index |-> -1]

Return(m, r) == [m EXCEPT !.ret = r]

\* The state an operation starts in and transforms: the registry, the world,
\* whether the thread is unwinding, the value returned and the log.
Machine(sy, la, wo) ==
    [systems |-> sy, labels |-> la, world |-> wo, panicked |-> FALSE,
     ret |-> Unit, log |-> <<>>]

Emit(m, e, i) == [m EXCEPT !.log = Append(@, Ev(e, i))]

\* panic!(): unwinding; nothing of the operation runs after it.
Panic(m) == [Emit(m, "panic", -1) EXCEPT !.panicked = TRUE, !.ret = Panicked]

----------------------------------------------------------------------------
\* The System abstraction (initialize, run, apply_buffers) and the change
\* ticks of the World, as the registry relies on them.

\* System::initialize: allocates the system's state.  A new system has seen
\* nothing: its last_change_tick is older than every tick of the world.
\* (labelled is a history field, not state of the system: the label list the
\* slot was registered with.)
System_initialize(S, w) ==
    [type |-> S, local |-> 0, last_change_tick |-> 0, commands |-> <<>>,
     labelled |-> <<>>]

\* DetectChanges::is_changed for the ChangeDetector resource, as seen by system s.
is_changed(s, w) == w.detector_changed > s.last_change_tick

\* tests::count_up
count_up(s, w) == [sys |-> s, world |-> [w EXCEPT !.counter = @ + 1]]

\* tests::spawn_entity: commands.spawn() is buffered in the system.
spawn_entity(s, w) ==
    [sys |-> [s EXCEPT !.commands = Append(@, SpawnCommand)], world |-> w]

\* tests::change_detection::count_up_iff_changed
count_up_iff_changed(s, w) ==
    [sys |-> s,
     world |-> IF is_changed(s, w) THEN [w EXCEPT !.counter = @ + 1] ELSE w]

\* tests::local_variables::doubling
doubling(s, w) ==
    LET counter == w.counter + s.local
    IN  [sys |-> [s EXCEPT !.local = counter],
         world |-> [w EXCEPT !.counter = counter]]

\* tests::system_recursion::count_to_ten
count_to_ten(s, w) ==
    LET counter == w.counter + 1
    IN  [sys |-> IF counter < 10
                 THEN [s EXCEPT !.commands =
                           Append(@, RunSystemCommand_new("count_to_ten"))]
                 ELSE s,
         world |-> [w EXCEPT !.counter = counter]]

\* A system that queues a RunSystemsByLabelCommand for the label "count".
run_callback_count(s, w) ==
    [sys |-> [s EXCEPT !.commands =
                  Append(@, RunSystemsByLabelCommand([label |-> UserLabel("count")]))],
     world |-> w]

\* The logic of each system type.
Logic(s, w) ==
    CASE s.type = "count_up" -> count_up(s, w)
      [] s.type = "spawn_entity" -> spawn_entity(s, w)
      [] s.type = "count_up_iff_changed" -> count_up_iff_changed(s, w)
      [] s.type = "doubling" -> doubling(s, w)
      [] s.type = "count_to_ten" -> count_to_ten(s, w)
      [] s.type = "run_callback_count" -> run_callback_count(s, w)
      [] s.type = "chained_count_up" -> count_up(s, w)

\* System::run: the system runs at the world's change tick, which it
\* advances, and remembers that tick as the last one it has seen.
System_run(m, index) ==
    LET s == m.systems[index + 1]
        tick == m.world.change_tick
        r == Logic(s, [m.world EXCEPT !.change_tick = tick + 1])
        seen == IF s.type = "count_up_iff_changed"
                THEN Emit(m, IF is_changed(s, m.world) THEN "is_changed" ELSE "not_changed", index)
                ELSE m
    IN  [Emit(seen, "run", index) EXCEPT
            !.systems[index + 1] = [r.sys EXCEPT !.last_change_tick = tick],
            !.world = r.world]

RECURSIVE Command_write(_, _)

\* CommandQueue::apply: the queued commands, in the order they were queued.
RECURSIVE apply_queue(_, _)
apply_queue(m, queue) ==
    IF queue = <<>> \/ m.panicked THEN m
    ELSE apply_queue(Command_write(m, Head(queue)), Tail(queue))

\* System::apply_buffers: drains the system's command queue into the world.
System_apply_buffers(m, index) ==
    LET queue == m.systems[index + 1].commands
        drained == [Emit(m, "apply_buffers", index) EXCEPT
                       !.systems[index + 1].commands = <<>>]
        applied == apply_queue(drained, queue)
    IN  IF applied.panicked THEN applied ELSE Emit(applied, "flushed", index)

\* World::resource_scope, first half: the registry is taken out of the world;
\* taking out a resource that is not there panics.
resource_scope_take(m) ==
    IF m.panicked THEN m
    ELSE IF ~m.world.registry THEN Panic(m)
    ELSE [Emit(m, "take", -1) EXCEPT !.world.registry = FALSE]

\* World::resource_scope, second half: the registry is put back on every exit
\* path of the scope that took it out (before: the state the scope started in).
resource_scope_restore(before, m) ==
    IF before.panicked \/ ~before.world.registry THEN m
    ELSE [Emit(m, "restore", -1) EXCEPT !.world.registry = TRUE]

----------------------------------------------------------------------------
\* impl SystemRegistry

\* Mutant: a label seen for the first time gets a key with no index.
RECURSIVE insert_labels_empty_key(_, _, _)
insert_labels_empty_key(index_of, lbls, system_index) ==
    IF lbls = <<>> THEN index_of
    ELSE LET label == Head(lbls)
             pushed == IF label \in DOMAIN index_of
                       THEN [index_of EXCEPT ![label] = Append(@, system_index)]
                       ELSE index_of @@ (label :> <<>>)
         IN  insert_labels_empty_key(pushed, Tail(lbls), system_index)

\* Mutant: the index is put at the front of the label's vector.
RECURSIVE insert_labels_front(_, _, _)
insert_labels_front(index_of, lbls, system_index) ==
    IF lbls = <<>> THEN index_of
    ELSE LET label == Head(lbls)
             pushed == IF label \in DOMAIN index_of
                       THEN [index_of EXCEPT ![label] = <<system_index>> \o @]
                       ELSE index_of @@ (label :> <<system_index>>)
         IN  insert_labels_front(pushed, Tail(lbls), system_index)

\* The loop over the labels of a new system: its index is pushed to the
\* label's vector, or the label is inserted with a vector holding it.
RECURSIVE insert_labels(_, _, _)
insert_labels(index_of, lbls, system_index) ==
    IF lbls = <<>> THEN index_of
    ELSE LET label == Head(lbls)
             pushed == IF label \in DOMAIN index_of
                       THEN [index_of EXCEPT ![label] = Append(@, system_index)]
                       ELSE index_of @@ (label :> <<system_index>>)
         IN  insert_labels(pushed, Tail(lbls), system_index)

\* Mutant: the system is pushed to the store first and initialized there.
register_boxed_system_with_labels_push_first(m, boxed_system, lbls) ==
    IF m.panicked THEN m
    ELSE LET initialized == System_initialize(boxed_system, m.world)
             system_index == Len(m.systems)
             stored == [Emit(Emit(m, "push", system_index), "initialize", system_index)
                           EXCEPT !.systems =
                               Append(@, [initialized EXCEPT !.labelled = lbls])]
         IN  [stored EXCEPT !.labels = insert_labels(@, lbls, system_index),
                            !.ret = Index(system_index)]

register_boxed_system_with_labels(m, boxed_system, lbls) ==
    IF m.panicked THEN m
    ELSE LET initialized == System_initialize(boxed_system, m.world)
             system_index == Len(m.systems)
             stored == [Emit(Emit(m, "initialize", system_index), "push", system_index)
                           EXCEPT !.systems =
                               Append(@, [initialized EXCEPT !.labelled = lbls])]
         IN  [stored EXCEPT !.labels = insert_labels(@, lbls, system_index),
                            !.ret = Index(system_index)]

is_label_registered(m, label) == label \in DOMAIN m.labels

\* Mutant: the index registered last under the label, not first.
first_registered_index_last(m, label) ==
    IF label \notin DOMAIN m.labels THEN -1
    ELSE IF m.labels[label] = <<>> THEN -1
    ELSE m.labels[label][Len(m.labels[label])]

\* Option<usize>: the index, or -1 for None.
first_registered_index(m, label) ==
    IF label \notin DOMAIN m.labels THEN -1
    ELSE IF m.labels[label] = <<>> THEN -1
    ELSE Head(m.labels[label])

\* Mutant: the system is registered whether or not its label is known.
SystemRegistry_register_system_always(m, S) ==
    IF m.panicked THEN m
    ELSE Return(register_boxed_system_with_labels(m, S, <<SystemTypeIdLabel(S)>>), Unit)

SystemRegistry_register_system(m, S) ==
    IF m.panicked THEN m
    ELSE LET automatic_system_label == SystemTypeIdLabel(S)
         IN  IF ~is_label_registered(m, automatic_system_label)
             THEN Return(register_boxed_system_with_labels(
                             m, S, <<automatic_system_label>>), Unit)
             ELSE Return(Emit(m, "warn", -1), Unit)

\* Mutant: a system type already stored with the same labels is not added again.
SystemRegistry_register_system_with_labels_once(m, S, lbls) ==
    IF \E i \in DOMAIN m.systems :
           m.systems[i].type = S /\ m.systems[i].labelled = lbls
    THEN Return(m, Unit)
    ELSE Return(register_boxed_system_with_labels(m, S, lbls), Unit)

SystemRegistry_register_system_with_labels(m, S, lbls) ==
    Return(register_boxed_system_with_labels(m, S, lbls), Unit)

\* Mutant: the stored system is initialized anew before each execution.
run_system_at_index_reinitialized(m, index) ==
    IF m.panicked THEN m
    ELSE LET old == m.systems[index + 1]
             again == [m EXCEPT !.systems[index + 1] =
                          [System_initialize(old.type, m.world)
                              EXCEPT !.labelled = old.labelled]]
         IN  System_apply_buffers(System_run(again, index), index)

\* Mutant: the system is run and its commands are left in its buffer.
run_system_at_index_no_flush(m, index) ==
    IF m.panicked THEN m ELSE System_run(m, index)

run_system_at_index(m, index) ==
    IF m.panicked THEN m
    ELSE LET ran == System_run(m, index)
         IN  System_apply_buffers(ran, index)

\* Mutant: the matching systems are run last registered first.
RECURSIVE run_indexes_reversed(_, _)
run_indexes_reversed(m, matching_indexes) ==
    IF matching_indexes = <<>> \/ m.panicked THEN m
    ELSE run_indexes_reversed(
             run_system_at_index(m, matching_indexes[Len(matching_indexes)]),
             SubSeq(matching_indexes, 1, Len(matching_indexes) - 1))

\* for index in matching_indexes.clone() { self.run_system_at_index(world, index) }
RECURSIVE run_indexes(_, _)
run_indexes(m, matching_indexes) ==
    IF matching_indexes = <<>> \/ m.panicked THEN m
    ELSE run_indexes(run_system_at_index(m, Head(matching_indexes)),
                     Tail(matching_indexes))

\* Mutant: a label nobody registered runs nothing and reports success.
SystemRegistry_run_callback_lenient(m, callback) ==
    IF m.panicked THEN m
    ELSE IF callback.label \in DOMAIN m.labels
         THEN Return(run_indexes(m, m.labels[callback.label]), Ok)
         ELSE Return(m, Ok)

\* Mutant: only the first stored system under the label is run.
SystemRegistry_run_callback_first_only(m, callback) ==
    IF m.panicked THEN m
    ELSE IF callback.label \in DOMAIN m.labels
         THEN LET ran == run_system_at_index(m, Head(m.labels[callback.label]))
              IN  IF ran.panicked THEN ran ELSE Return(ran, Ok)
         ELSE Return(m, LabelNotFound(callback.label))

SystemRegistry_run_callback(m, callback) ==
    IF m.panicked THEN m
    ELSE LET boxed_label == callback.label
         IN  IF boxed_label \in DOMAIN m.labels
             THEN LET ran == run_indexes(m, m.labels[boxed_label])
                  IN  IF ran.panicked THEN ran ELSE Return(ran, Ok)
             ELSE Return(m, LabelNotFound(boxed_label))

SystemRegistry_run_systems_by_label(m, label) ==
    SystemRegistry_run_callback(m, [label |-> label])

\* Mutant: run_system registers the system on every call.
SystemRegistry_run_system_reregisters(m, S) ==
    IF m.panicked THEN m
    ELSE LET fresh == register_boxed_system_with_labels(m, S, default_labels(S))
             ran == run_system_at_index(fresh, fresh.ret.index)
         IN  IF ran.panicked THEN ran ELSE Return(ran, Unit)

SystemRegistry_run_system(m, S) ==
    IF m.panicked THEN m
    ELSE LET automatic_system_label == SystemTypeIdLabel(S)
             registered == is_label_registered(m, automatic_system_label)
             fresh == register_boxed_system_with_labels(m, S, default_labels(S))
             index == IF registered
                      THEN first_registered_index(m, automatic_system_label)
                      ELSE fresh.ret.index
             ran == run_system_at_index(IF registered THEN m ELSE fresh, index)
         IN  IF index = -1 THEN Panic(m)   \* unwrap() of None
             ELSE IF ran.panicked THEN ran ELSE Return(ran, Unit)

----------------------------------------------------------------------------
\* impl World: the forwarders, each inside resource_scope.

World_register_system(m, S) ==
    resource_scope_restore(m, SystemRegistry_register_system(resource_scope_take(m), S))

World_register_system_with_labels(m, S, lbls) ==
    resource_scope_restore(m,
        SystemRegistry_register_system_with_labels(resource_scope_take(m), S, lbls))

\* Mutant: the registry is used where it lies, without resource_scope.
World_run_system_unscoped(m, S) == SystemRegistry_run_system(m, S)

\* Mutant: the registry is taken out of the world and never put back.
World_run_system_not_restored(m, S) ==
    SystemRegistry_run_system(resource_scope_take(m), S)

World_run_system(m, S) ==
    resource_scope_restore(m, SystemRegistry_run_system(resource_scope_take(m), S))

World_run_systems_by_label(m, label) ==
    resource_scope_restore(m,
        SystemRegistry_run_systems_by_label(resource_scope_take(m), label))

World_run_callback(m, callback) ==
    resource_scope_restore(m,
        SystemRegistry_run_callback(resource_scope_take(m), callback))

----------------------------------------------------------------------------
\* The Command adapters.

\* impl Command for RunSystemCommand
RunSystemCommand_write(m, S) == World_run_system(m, S)

\* Mutant: the command drops the error instead of unwrapping it.
RunSystemsByLabelCommand_write_ignored(m, callback) ==
    LET taken == resource_scope_take(m)
        ran == SystemRegistry_run_callback(taken, callback)
    IN  resource_scope_restore(m, IF ran.panicked THEN ran ELSE Return(ran, Unit))

\* impl Command for RunSystemsByLabelCommand: the result is unwrapped.
RunSystemsByLabelCommand_write(m, callback) ==
    LET taken == resource_scope_take(m)
        ran == SystemRegistry_run_callback(taken, callback)
        unwrapped == IF ~ran.panicked /\ ran.ret.kind = "LabelNotFound"
                     THEN Panic(ran)
                     ELSE IF ran.panicked THEN ran ELSE Return(ran, Unit)
    IN  resource_scope_restore(m, unwrapped)

\* Command::write of a queued command.
Command_write(m, c) ==
    IF m.panicked THEN m
    ELSE CASE c.cmd = "spawn" ->
                  [Emit(m, "spawn", -1) EXCEPT !.world.entities = @ + 1]
           [] c.cmd = "run_system" ->
                  RunSystemCommand_write(Emit(m, "write_run_system", -1), c.system)
           [] c.cmd = "run_systems_by_label" ->
                  RunSystemsByLabelCommand_write(
                      Emit(m, "write_run_systems_by_label", -1), [label |-> c.label])

----------------------------------------------------------------------------
\* The state machine: one action per World-level operation.

UserLabels == {UserLabel("count"), UserLabel("other")}

\* World::new(), with the resources of the tests initialized: Counter(0) and
\* ChangeDetector, added (hence changed) at the world's first change tick.
NewWorld ==
    [counter |-> 0, entities |-> 0, change_tick |-> 1, detector_changed |-> 1,
     registry |-> TRUE]

NoCall == [op |-> "none", system |-> "none", labels |-> <<>>]

Init ==
    /\ systems = <<>>
    /\ labels = <<>>
    /\ world = NewWorld
    /\ panicked = FALSE
    /\ call = NoCall
    /\ result = Unit
    /\ log = <<>>
    /\ changed_since = <<>>
    /\ auto_called = {}

\* The slots the operation executed, in order.
RECURSIVE RunsOf(_)
RunsOf(events) ==
    IF events = <<>> THEN <<>>
    ELSE IF Head(events).ev = "run"
         THEN <<Head(events).idx>> \o RunsOf(Tail(events))
         ELSE RunsOf(Tail(events))

Range(f) == {f[x] : x \in DOMAIN f}

Start == Machine(systems, labels, world)

\* The operation has run from Start to m.
Finish(m, op, S, lbls) ==
    \E done \in {m} :
        /\ systems' = done.systems
        /\ labels' = done.labels
        /\ world' = done.world
        /\ panicked' = done.panicked
        /\ result' = done.ret
        /\ log' = done.log
        /\ call' = [op |-> op, system |-> S, labels |-> lbls]
        /\ \E ran \in {Range(RunsOf(done.log))} :
              changed_since' =
                  [i \in 1..Len(done.systems) |->
                      IF (i - 1) \in ran THEN FALSE
                      ELSE IF i > Len(systems) THEN TRUE
                      ELSE changed_since[i]]

\* How many stored systems a run of label l executes.
Matching(l) == IF l \in DOMAIN labels THEN Len(labels[l]) ELSE 0

Executed == world.change_tick - 1

\* The bounds: the store holds at most MaxSystems systems and at most MaxRuns
\* executions are started.  Known(S): S's automatic label is registered, so
\* that register_system(S) and run_system(S) append nothing.
Known(S) == is_label_registered(Start, SystemTypeIdLabel(S))
CanRegister == ~panicked /\ Len(systems) < MaxSystems
CanRun(n) == ~panicked /\ Executed + n <= MaxRuns

RegisterSystem(S) ==
    /\ ~panicked
    /\ Known(S) \/ CanRegister
    /\ Finish(World_register_system(Start, S), "register_system", S, <<>>)

RegisterSystemWithLabels(S, lbls) ==
    /\ CanRegister
    /\ Finish(World_register_system_with_labels(Start, S, lbls),
              "register_system_with_labels", S, lbls)

RunSystem(S) ==
    /\ Known(S) \/ CanRegister
    /\ CanRun(1)
    /\ Finish(World_run_system(Start, S), "run_system", S, <<>>)

RunSystemsByLabel(l) ==
    /\ CanRun(Matching(l))
    /\ Finish(World_run_systems_by_label(Start, l), "run_systems_by_label", "none", <<l>>)

RunCallback(S) ==
    /\ CanRun(Matching(SystemTypeIdLabel(S)))
    /\ Finish(World_run_callback(Start, Callback_new(S)), "run_callback", S,
              <<SystemTypeIdLabel(S)>>)

\* A RunSystemCommand applied by a command queue outside any stored system.
ApplyRunSystemCommand(S) ==
    /\ Known(S) \/ CanRegister
    /\ CanRun(1)
    /\ Finish(Command_write(Start, RunSystemCommand_new(S)), "RunSystemCommand", S, <<>>)

\* A RunSystemsByLabelCommand applied by a command queue outside any stored system.
ApplyRunSystemsByLabelCommand(l) ==
    /\ CanRun(Matching(l))
    /\ Finish(Command_write(Start, RunSystemsByLabelCommand([label |-> l])),
              "RunSystemsByLabelCommand", "none", <<l>>)

\* world.resource_mut::<ChangeDetector>().set_changed()
SetChanged ==
    /\ ~panicked
    /\ world.detector_changed # world.change_tick
    /\ world' = [world EXCEPT !.detector_changed = world.change_tick]
    /\ call' = [op |-> "set_changed", system |-> "none", labels |-> <<>>]
    /\ result' = Unit
    /\ log' = <<>>
    /\ changed_since' = [i \in DOMAIN changed_since |-> TRUE]
    /\ UNCHANGED <<systems, labels, panicked>>

\* The registry scenario: plain systems, registered and run in every order.
RegistryTypes == {"count_up", "doubling", "chained_count_up"}

Registrations ==
    {<<"doubling", <<UserLabel("count"), UserLabel("other")>> >>,
     <<"count_up", <<UserLabel("count"), UserLabel("count")>> >>,
     <<"doubling", <<SystemTypeIdLabel("doubling")>> >>,
     <<"chained_count_up", <<>> >>}

Next ==
    \/ \E S \in RegistryTypes : RegisterSystem(S) /\ UNCHANGED auto_called
    \/ \E r \in Registrations : RegisterSystemWithLabels(r[1], r[2]) /\ UNCHANGED auto_called
    \/ \E S \in RegistryTypes : RunSystem(S) /\ UNCHANGED auto_called
    \/ \E l \in UserLabels : RunSystemsByLabel(l) /\ UNCHANGED auto_called
    \/ \E S \in RegistryTypes : RunCallback(S) /\ UNCHANGED auto_called

Spec == Init /\ [][Next]_vars

\* The command scenario: systems that queue commands, and commands applied
\* by a command queue of the caller.
CommandTypes == {"spawn_entity", "count_to_ten", "run_callback_count"}

CommandRegistrations ==
    {<<"spawn_entity", <<UserLabel("count")>> >>,
     <<"spawn_entity", <<UserLabel("count"), UserLabel("other")>> >>,
     <<"count_to_ten", <<UserLabel("count")>> >>,
     <<"run_callback_count", <<UserLabel("other")>> >>}

NextCommands ==
    \/ \E S \in CommandTypes : RegisterSystem(S) /\ UNCHANGED auto_called
    \/ \E r \in CommandRegistrations : RegisterSystemWithLabels(r[1], r[2]) /\ UNCHANGED auto_called
    \/ \E S \in CommandTypes : RunSystem(S) /\ UNCHANGED auto_called
    \/ \E l \in UserLabels : RunSystemsByLabel(l) /\ UNCHANGED auto_called
    \/ \E S \in CommandTypes : RunCallback(S) /\ UNCHANGED auto_called
    \/ \E S \in CommandTypes : ApplyRunSystemCommand(S) /\ UNCHANGED auto_called
    \/ \E l \in UserLabels : ApplyRunSystemsByLabelCommand(l) /\ UNCHANGED auto_called

SpecCommands == Init /\ [][NextCommands]_vars

\* The change detection scenario of tests::change_detection.
ChangeTypes == {"count_up_iff_changed", "count_up"}

ChangeRegistrations ==
    {<<"count_up_iff_changed", <<UserLabel("count")>> >>,
     <<"count_up", <<UserLabel("count")>> >>}

NextChange ==
    \/ \E S \in ChangeTypes : RegisterSystem(S) /\ UNCHANGED auto_called
    \/ \E r \in ChangeRegistrations : RegisterSystemWithLabels(r[1], r[2]) /\ UNCHANGED auto_called
    \/ \E S \in ChangeTypes : RunSystem(S) /\ UNCHANGED auto_called
    \/ \E l \in UserLabels : RunSystemsByLabel(l) /\ UNCHANGED auto_called
    \/ SetChanged /\ UNCHANGED auto_called

SpecChange == Init /\ [][NextChange]_vars

\* The callback scenario: the automatic label of a system type reached by
\* register_system, by run_system and by a manual registration, with the
\* history of the types register_system and run_system were called with.
CallbackTypes == {"count_up", "doubling", "chained_count_up"}

CallbackRegistrations ==
    {<<"doubling", <<SystemTypeIdLabel("doubling")>> >>,
     <<"count_up", <<UserLabel("count")>> >>}

Tracked(op, S) == auto_called' = auto_called \cup {<<op, S>>}

NextCallback ==
    \/ \E S \in CallbackTypes : RegisterSystem(S) /\ Tracked("register_system", S)
    \/ \E r \in CallbackRegistrations :
          RegisterSystemWithLabels(r[1], r[2]) /\ UNCHANGED auto_called
    \/ \E S \in CallbackTypes : RunSystem(S) /\ Tracked("run_system", S)
    \/ \E S \in CallbackTypes : RunCallback(S) /\ UNCHANGED auto_called

SpecCallback == Init /\ [][NextCallback]_vars

----------------------------------------------------------------------------
\* Properties.

\* The slots whose registration named label l (from the history field).
SlotsLabelled(sy, l) ==
    {i \in 0..(Len(sy) - 1) : l \in Range(sy[i + 1].labelled)}

Ascending(seq) == \A i, j \in DOMAIN seq : i <= j => seq[i] <= seq[j]

\* C1: a run_systems_by_label(L) that follows registrations naming L succeeds
\* and executes the stored systems registered with L, and no others, in
\* ascending slot order, which is the order they were registered in.
C1_RegistrationOrder ==
    [][(call'.op = "run_systems_by_label"
            /\ SlotsLabelled(systems, call'.labels[1]) # {})
        => /\ result' = Ok
           /\ Ascending(RunsOf(log'))
           /\ Range(RunsOf(log')) = SlotsLabelled(systems, call'.labels[1])]_vars

\* C1 witness: label "count" was run over slots 0 and 2, registered around a
\* slot that does not carry it.
C1_Witness ==
    /\ call.op = "run_systems_by_label"
    /\ call.labels = <<UserLabel("count")>>
    /\ RunsOf(log) = <<0, 2>>
    /\ Len(systems) = 3

\* Every execution in events is followed at once by the flush of the same
\* slot, which ends (or panics) before another slot is executed.
FlushedInOrder(events) ==
    \A k \in DOMAIN events :
        events[k].ev = "run" =>
            /\ k < Len(events)
            /\ events[k + 1] = Ev("apply_buffers", events[k].idx)
            /\ \E k2 \in (k + 1)..Len(events) :
                  /\ events[k2] \in {Ev("flushed", events[k].idx), Ev("panic", -1)}
                  /\ \A j \in (k + 1)..(k2 - 1) : events[j].ev # "run"

NoUnapplied(sy) == \A i \in DOMAIN sy : sy[i].commands = <<>>

\* How many of the executions in events were of a spawn_entity system.
SpawnRuns(events, sy) ==
    Cardinality({k \in DOMAIN events :
                    events[k].ev = "run" /\ sy[events[k].idx + 1].type = "spawn_entity"})

\* C2: every execution of a stored system is followed immediately by the flush
\* of its own commands, before another stored system runs and before the call
\* returns; after a call that returned no stored system holds unapplied
\* commands, and every entity spawned by an executed system is in the world.
C2_ImmediateFlush ==
    [][/\ FlushedInOrder(log')
       /\ (~panicked' => NoUnapplied(systems'))
       /\ world'.entities = world.entities + SpawnRuns(log', systems')]_vars

\* C2 witness: one label run executed two spawn_entity systems and returned
\* with both entities in the world.
C2_Witness ==
    /\ call.op = "run_systems_by_label"
    /\ result = Ok
    /\ Len(RunsOf(log)) = 2
    /\ SpawnRuns(log, systems) = 2
    /\ world.entities = 2

\* C3 (as claimed, for every system type): of two consecutive run_system(S)
\* calls the second appends nothing and executes the slot the first executed.
C3_RunSystemReusesSlot ==
    [][(call.op = "run_system" /\ call'.op = "run_system"
            /\ call'.system = call.system)
        => /\ Len(systems') = Len(systems)
           /\ RunsOf(log') = RunsOf(log)]_vars

\* C4: running a label no registration named returns LabelNotFound with that
\* label, without a panic, executes nothing and leaves the world, the store
\* and the label index as they were.
C4_UnknownLabel ==
    [][(call'.op \in {"run_systems_by_label", "run_callback"}
            /\ SlotsLabelled(systems, call'.labels[1]) = {})
        => /\ result' = LabelNotFound(call'.labels[1])
           /\ ~panicked'
           /\ RunsOf(log') = <<>>
           /\ world' = world
           /\ systems' = systems
           /\ labels' = labels]_vars

\* C4 witness: a callback on a label without systems came back with the
\* error while systems are stored under other labels.
C4_Witness ==
    /\ call.op = "run_callback"
    /\ result = LabelNotFound(SystemTypeIdLabel("count_up"))
    /\ Len(systems) >= 2
    /\ world.counter >= 1

\* C7: register_system(S) changes nothing and initializes nothing when a
\* stored system carries S's automatic label; otherwise it appends one stored
\* system of type S and indexes it under the automatic label alone.
C7_RegisterSystemIdempotent ==
    [][call'.op = "register_system"
        => LET auto == SystemTypeIdLabel(call'.system)
               n == Len(systems)
           IN  IF SlotsLabelled(systems, auto) # {}
               THEN /\ systems' = systems
                    /\ labels' = labels
                    /\ \A k \in DOMAIN log' : log'[k].ev # "initialize"
               ELSE /\ Len(systems') = n + 1
                    /\ SubSeq(systems', 1, n) = systems
                    /\ systems'[n + 1].type = call'.system
                    /\ DOMAIN labels' = DOMAIN labels \cup {auto}
                    /\ \A l \in DOMAIN labels' :
                          labels'[l] = IF l = auto THEN <<n>> ELSE labels[l]]_vars

\* C7 witness: a second register_system of a stored type ended in the warning.
C7_Witness ==
    /\ call.op = "register_system"
    /\ \E k \in DOMAIN log : log[k].ev = "warn"
    /\ Len(systems) >= 1

\* C8: register_system_with_labels appends one new, freshly initialized
\* stored system at the index the store length had, whatever is stored
\* already, and indexes it under each label given and no other; and an
\* operation changes the state of no slot but those it executes, so copies of
\* one system keep states of their own and a label run executes each copy.
C8_RegisterWithLabelsAppends ==
    [][/\ call'.op = "register_system_with_labels"
          => LET n == Len(systems)
                 given == Range(call'.labels)
             IN  /\ Len(systems') = n + 1
                 /\ SubSeq(systems', 1, n) = systems
                 /\ Ev("push", n) \in Range(log')
                 /\ systems'[n + 1] =
                       [System_initialize(call'.system, world)
                           EXCEPT !.labelled = call'.labels]
                 /\ DOMAIN labels' = DOMAIN labels \cup given
                 /\ \A l \in given : labels'[l][Len(labels'[l])] = n
                 /\ \A l \in DOMAIN labels' \ given : labels'[l] = labels[l]
       /\ \A i \in DOMAIN systems :
             (i - 1) \notin Range(RunsOf(log')) => systems'[i] = systems[i]
       /\ call'.op = "run_systems_by_label"
          => SlotsLabelled(systems, call'.labels[1]) \subseteq Range(RunsOf(log'))]_vars

\* C8 witness: two copies of doubling registered with the same labels hold
\* different local state after one of them was executed.
C8_Witness ==
    \E i, j \in DOMAIN systems :
        /\ i < j
        /\ systems[i].type = "doubling"
        /\ systems[j].type = "doubling"
        /\ systems[i].labelled = systems[j].labelled
        /\ systems[i].local # systems[j].local

\* C9 (as claimed): after run_system(S) has returned, S's automatic label is
\* registered.
C9_RunSystemRegistersAutomaticLabel ==
    (call.op = "run_system" /\ ~panicked)
        => is_label_registered(Start, SystemTypeIdLabel(call.system))

\* The positions in events of run commands that a stored system had queued:
\* they are written while a flush is under way.
QueuedRunWrites(events) ==
    {k \in DOMAIN events :
        /\ events[k].ev \in {"write_run_system", "write_run_systems_by_label"}
        /\ \E j \in 1..(k - 1) : events[j].ev = "apply_buffers"}

IndexInStore == \A l \in DOMAIN labels : \A i \in Range(labels[l]) : i < Len(systems)

\* C5: a run command queued by a stored system panics when it is applied:
\* the operation ends in the panic, nothing is executed, initialized or
\* stored after the command is written, the registry is back in the world and
\* its index still points into the store; and an executed system that queued
\* such a command always leads there.
C5_RecursionPanics ==
    /\ \A k \in QueuedRunWrites(log) :
          /\ panicked
          /\ result = Panicked
          /\ k < Len(log)
          /\ log[k + 1] = Ev("panic", -1)
          /\ \A j \in (k + 1)..Len(log) :
                log[j].ev \notin {"run", "initialize", "push", "take", "spawn"}
          /\ world.registry
          /\ NoUnapplied(systems)
          /\ IndexInStore
    /\ (\E k \in DOMAIN log :
           /\ log[k].ev = "run"
           /\ \/ systems[log[k].idx + 1].type = "run_callback_count"
              \/ systems[log[k].idx + 1].type = "count_to_ten" /\ world.counter < 10)
       => (panicked /\ QueuedRunWrites(log) # {})

\* C5 witness: run_system(count_to_ten) panicked on the command it queued.
C5_Witness ==
    /\ call.op = "run_system"
    /\ call.system = "count_to_ten"
    /\ panicked
    /\ QueuedRunWrites(log) # {}
    /\ world.counter = 1

WorldOps ==
    {"register_system", "register_system_with_labels", "run_system",
     "run_systems_by_label", "run_callback"}

\* C6: every World-level operation takes the registry out of the world first
\* and puts it back last, once, also when the operation inside fails; so the
\* registry is in the world after every operation.
C6_RegistryRestored ==
    /\ world.registry
    /\ call.op \in WorldOps
       => /\ Len(log) >= 2
          /\ log[1] = Ev("take", -1)
          /\ log[Len(log)] = Ev("restore", -1)
          /\ Cardinality({k \in DOMAIN log : log[k].ev \in {"take", "restore"}}) = 2

\* C6 witness: run_system panicked inside and the registry is back.
C6_Witness ==
    /\ call.op = "run_system"
    /\ panicked
    /\ world.registry
    /\ log[Len(log)] = Ev("restore", -1)

\* C10: a stored system that reads ChangeDetector sees it changed exactly
\* when it was marked changed (or added) after that stored system's last
\* execution, or the stored system never ran before.
C10_ChangeDetection ==
    [][\A k \in DOMAIN log' :
          log'[k].ev \in {"is_changed", "not_changed"}
          => LET i == log'[k].idx
                 ran_before == \E j \in 1..(k - 1) : log'[j] = Ev("run", i)
                 expected == IF ran_before THEN FALSE
                             ELSE IF i >= Len(systems) THEN TRUE
                             ELSE changed_since[i + 1]
             IN  (log'[k].ev = "is_changed") = expected]_vars

\* C10 witness: the run of tests::change_detection: the cached system ran
\* three times, saw the change the first and the third time (after
\* set_changed) and none the second time.
C10_Witness ==
    /\ call.op = "run_system"
    /\ call.system = "count_up_iff_changed"
    /\ Len(systems) = 1
    /\ world.change_tick = 4
    /\ world.counter = 2
    /\ \E k \in DOMAIN log : log[k] = Ev("is_changed", 0)

Min(set) == CHOOSE x \in set : \A y \in set : x <= y

\* The events of the given kinds in events, in order.
EventsOf(events, kinds) == SelectSeq(events, LAMBDA e : e.ev \in kinds)

\* C11: when more than one stored system is indexed under S's automatic label
\* (by manual registration with that label), run_system(S) executes exactly
\* one stored system, the one with the least slot index, exactly once, and
\* initializes and appends nothing.
C11_RunSystemRunsFirstOnly ==
    (/\ call.op = "run_system"
     /\ Cardinality(SlotsLabelled(systems, SystemTypeIdLabel(call.system))) > 1)
    => /\ result = Unit
       /\ RunsOf(log) = <<Min(SlotsLabelled(systems, SystemTypeIdLabel(call.system)))>>
       /\ EventsOf(log, {"initialize", "push"}) = <<>>

\* C11 witness: two doubling systems were registered manually under doubling's
\* automatic label behind another system; run_system(doubling) ran slot 1 only.
C11_Witness ==
    /\ call = [op |-> "run_system", system |-> "doubling", labels |-> <<>>]
    /\ SlotsLabelled(systems, SystemTypeIdLabel("doubling")) = {1, 2}
    /\ labels[SystemTypeIdLabel("doubling")] = <<1, 2>>
    /\ RunsOf(log) = <<1>>

\* C12: applying a RunSystemsByLabelCommand whose label is not registered
\* panics, where the direct run_systems_by_label on the same state returns the
\* recoverable LabelNotFound; with a registered label the command and the
\* direct call execute the same stored systems in the same order and leave
\* the same registry and world.
C12_CommandUnwraps ==
    [][call'.op = "RunSystemsByLabelCommand"
        => \E direct \in {World_run_systems_by_label(Start, call'.labels[1])} :
              IF SlotsLabelled(systems, call'.labels[1]) = {}
              THEN /\ panicked' /\ result' = Panicked
                   /\ RunsOf(log') = <<>>
                   /\ ~direct.panicked
                   /\ direct.ret = LabelNotFound(call'.labels[1])
              ELSE /\ RunsOf(log') = RunsOf(direct.log)
                   /\ RunsOf(log') # <<>>
                   /\ panicked' = direct.panicked
                   /\ systems' = direct.systems
                   /\ world' = direct.world]_vars

\* C12 witness: the command was applied with a label no stored system carries
\* while other systems are stored, and panicked without executing any.
C12_Witness ==
    /\ call.op = "RunSystemsByLabelCommand"
    /\ call.labels = <<UserLabel("other")>>
    /\ Len(systems) = 2
    /\ SlotsLabelled(systems, UserLabel("other")) = {}
    /\ panicked
    /\ RunsOf(log) = <<>>

\* S was never registered by register_system(S) or by run_system(S).
NeverAutoRegistered(S) == \A c \in auto_called : c[2] # S

AfterRegisterSystem(S) == <<"register_system", S>> \in auto_called

\* C13 (as claimed): run_callback(Callback::new(S)) returns LabelNotFound as
\* long as S was never registered by register_system or run_system, and after
\* register_system(S) it returns Ok and executes exactly the stored systems
\* under S's automatic label, which is exactly what run_system(S) executes.
C13_CallbackAsClaimed ==
    [][call'.op = "run_callback"
        => /\ NeverAutoRegistered(call'.system)
                => result' = LabelNotFound(SystemTypeIdLabel(call'.system))
           /\ AfterRegisterSystem(call'.system)
                => /\ result' = Ok
                   /\ RunsOf(log') = labels[SystemTypeIdLabel(call'.system)]
                   /\ RunsOf(log') =
                         RunsOf(World_run_system(Start, call'.system).log)]_vars

\* C13 (amended): run_callback(Callback::new(S)) returns LabelNotFound exactly
\* when no stored system is indexed under S's automatic label, whichever
\* operation registered it; otherwise (in particular after register_system(S))
\* it returns Ok and executes exactly the stored systems indexed under that
\* label, in index order, the first of which is the slot run_system(S) executes.
C13_CallbackByAutomaticLabel ==
    [][call'.op = "run_callback"
        => /\ call'.labels = <<SystemTypeIdLabel(call'.system)>>
           /\ AfterRegisterSystem(call'.system)
                => SlotsLabelled(systems, call'.labels[1]) # {}
           /\ IF SlotsLabelled(systems, call'.labels[1]) = {}
              THEN /\ result' = LabelNotFound(call'.labels[1])
                   /\ RunsOf(log') = <<>>
              ELSE /\ result' = Ok
                   /\ RunsOf(log') = labels[call'.labels[1]]
                   /\ Range(RunsOf(log')) = SlotsLabelled(systems, call'.labels[1])
                   /\ RunsOf(World_run_system(Start, call'.system).log)
                         = <<Head(RunsOf(log'))>>]_vars

\* C13 witness: doubling was never registered by register_system or
\* run_system, yet its callback ran the two systems registered by hand under
\* its automatic label.
C13_Witness ==
    /\ call.op = "run_callback"
    /\ call.system = "doubling"
    /\ NeverAutoRegistered("doubling")
    /\ result = Ok
    /\ RunsOf(log) = <<0, 1>>

AllLabels == UserLabels \cup {SystemTypeIdLabel(S) : S \in RegistryTypes}

\* C14: is_label_registered(L) holds exactly when some stored system is
\* indexed under L: a label key never maps to an empty index sequence, the
\* slots under a key are those whose registration named it, and a system
\* registered with an empty label list is under no label.
C14_RegisteredIffIndexed ==
    /\ \A l \in AllLabels \cup DOMAIN labels :
          /\ is_label_registered(Start, l) <=> SlotsLabelled(systems, l) # {}
          /\ is_label_registered(Start, l) <=> (l \in DOMAIN labels /\ labels[l] # <<>>)
          /\ l \in DOMAIN labels => Range(labels[l]) = SlotsLabelled(systems, l)
    /\ \A i \in DOMAIN systems :
          systems[i].labelled = <<>>
              => \A l \in DOMAIN labels : (i - 1) \notin Range(labels[l])

\* C14 witness: a system was registered with an empty label list next to a
\* labelled one; only the labelled one's labels are registered.
C14_Witness ==
    /\ call.op = "register_system_with_labels"
    /\ call.labels = <<>>
    /\ Len(systems) = 2
    /\ systems[1].labelled = <<UserLabel("count"), UserLabel("other")>>
    /\ DOMAIN labels = UserLabels
    /\ ~is_label_registered(Start, SystemTypeIdLabel("chained_count_up"))

IsPrefix(s, t) == Len(s) <= Len(t) /\ SubSeq(t, 1, Len(s)) = s

\* C15: no operation shrinks the store or moves a stored system to another
\* slot; every index in the label index is below the store length; a label
\* key is never removed and its index sequence only grows at its end, by
\* indexes of slots appended in the same call (so it is in registration order).
C15_StoreAndIndexOnlyGrow ==
    [][/\ Len(systems') >= Len(systems)
       /\ \A i \in DOMAIN systems :
             /\ systems'[i].type = systems[i].type
             /\ systems'[i].labelled = systems[i].labelled
       /\ \A l \in DOMAIN labels' : \A i \in Range(labels'[l]) : i < Len(systems')
       /\ \A l \in DOMAIN labels :
             /\ l \in DOMAIN labels'
             /\ IsPrefix(labels[l], labels'[l])
       /\ \A l \in DOMAIN labels' :
             /\ \A k \in DOMAIN labels'[l] :
                   (l \notin DOMAIN labels \/ k > Len(labels[l]))
                       => labels'[l][k] >= Len(systems)
             /\ Ascending(labels'[l])]_vars

\* C15 witness: three registrations named label "count", the second twice;
\* its index sequence grew at the end each time.
C15_Witness ==
    /\ Len(systems) = 3
    /\ UserLabel("count") \in DOMAIN labels
    /\ labels[UserLabel("count")] = <<0, 1, 1, 2>>
    /\ call.op = "register_system_with_labels"

\* C16: a call initializes exactly the stored systems it appends, each once
\* and before it is pushed to the store, hence before the call executes it; a
\* call that appends nothing initializes nothing, and an execution of a system
\* stored earlier sees the state it was left with (its own last-seen change
\* tick), not a re-initialized one.
C16_InitializedOnceAtRegistration ==
    [][\E created \in {EventsOf(log', {"initialize", "push"})} :
          /\ Len(created) = 2 * (Len(systems') - Len(systems))
          /\ \A k \in 1..(Len(systems') - Len(systems)) :
                /\ created[2 * k - 1] = Ev("initialize", Len(systems) + k - 1)
                /\ created[2 * k] = Ev("push", Len(systems) + k - 1)
          /\ \A k \in DOMAIN log' :
                (log'[k].ev = "run" /\ log'[k].idx >= Len(systems))
                    => \E j \in 1..(k - 1) : log'[j] = Ev("initialize", log'[k].idx)
          /\ \A k \in DOMAIN log' :
                (log'[k].ev \in {"is_changed", "not_changed"} /\ log'[k].idx < Len(systems))
                    => (log'[k].ev = "is_changed"
                            <=> is_changed(systems[log'[k].idx + 1], world))]_vars

\* C16 witness: run_system(count_up_iff_changed) registered the system:
\* initialized, pushed, then executed, in that order.
C16_Witness ==
    /\ call = [op |-> "run_system", system |-> "count_up_iff_changed", labels |-> <<>>]
    /\ Len(systems) = 2
    /\ EventsOf(log, {"initialize", "push", "run"})
          = <<Ev("initialize", 1), Ev("push", 1), Ev("run", 1)>>

\* How many events of kind e are among the first k of events.
CountUpTo(events, e, k) == Cardinality({j \in 1..k : events[j].ev = e})

\* The stored systems in progress after the first k events: started (run)
\* and not yet through their flush.
InProgress(events, k) == CountUpTo(events, "run", k) - CountUpTo(events, "flushed", k)

\* C17: at most one stored system is in progress at any time: an execution
\* starts only when none is in progress, also when a command applied during a
\* flush asks for a run (it panics and starts nothing); a call that returns
\* leaves none in progress.
C17_OneSystemInProgress ==
    /\ \A k \in DOMAIN log :
          /\ InProgress(log, k) \in {0, 1}
          /\ log[k].ev = "run" => InProgress(log, k - 1) = 0
          /\ (log[k].ev \in {"write_run_system", "write_run_systems_by_label"}
                  /\ InProgress(log, k) = 1)
                => \A j \in k..Len(log) : log[j].ev # "run"
    /\ ~panicked => InProgress(log, Len(log)) = 0

\* C17 witness: a label run executed and flushed slot 0, then executed slot 1,
\* whose queued run command panicked while slot 1 was in progress.
C17_Witness ==
    /\ call.op = "run_systems_by_label"
    /\ RunsOf(log) = <<0, 1>>
    /\ panicked
    /\ InProgress(log, Len(log)) = 1
    /\ \E k \in DOMAIN log : log[k].ev = "write_run_system"

NoRepeats(seq) == \A i, j \in DOMAIN seq : seq[i] = seq[j] => i = j

\* C18 (as claimed): no slot index occurs twice in one label's index sequence,
\* whatever label lists the registrations gave, and a run of a label executes
\* each stored system under it exactly once.
C18_NoDuplicateIndexes ==
    /\ \A l \in DOMAIN labels : NoRepeats(labels[l])
    /\ call.op \in {"run_systems_by_label", "run_callback"} => NoRepeats(RunsOf(log))

\* C19: a run operation leaves the structure of the registry as it found it:
\* run_systems_by_label and run_callback, whether they return Ok, return
\* LabelNotFound or panic inside, and run_system(S) when S's automatic label
\* is registered, change neither the store length, nor which system a slot
\* holds, nor any label's index sequence; what they execute is read from the
\* index as it was when the call started.
C19_RunsKeepStructure ==
    [][(\/ call'.op \in {"run_systems_by_label", "run_callback"}
        \/ call'.op = "run_system" /\ Known(call'.system))
        => /\ Len(systems') = Len(systems)
           /\ labels' = labels
           /\ \A i \in DOMAIN systems :
                 /\ systems'[i].type = systems[i].type
                 /\ systems'[i].labelled = systems[i].labelled
           /\ EventsOf(log', {"initialize", "push"}) = <<>>
           /\ \E indexed \in {IF call'.op = "run_system"
                              THEN <<Head(labels[SystemTypeIdLabel(call'.system)])>>
                              ELSE IF call'.labels[1] \in DOMAIN labels
                                   THEN labels[call'.labels[1]]
                                   ELSE <<>>} :
                 /\ IsPrefix(RunsOf(log'), indexed)
                 /\ ~panicked' => RunsOf(log') = indexed
                 /\ (call'.op # "run_system" /\ indexed = <<>>)
                       => result' = LabelNotFound(call'.labels[1])]_vars

\* C19 witness: run_system(spawn_entity) found the automatic label registered
\* and executed slot 0 of a store of two, appending nothing.
C19_Witness ==
    /\ call = [op |-> "run_system", system |-> "spawn_entity", labels |-> <<>>]
    /\ ~panicked
    /\ Len(systems) = 2
    /\ RunsOf(log) = <<0>>
    /\ EventsOf(log, {"initialize", "push"}) = <<>>
    /\ systems[1].labelled = <<SystemTypeIdLabel("spawn_entity")>>

\* C20 (as claimed, for every system type): run_system(S) executes only
\* stored systems indexed under S's automatic label; when that label is not
\* registered (S is stored under explicit labels only, or not at all),
\* run_system(S) and register_system(S) append one further stored system in
\* its initial state, run_system(S) executes that one, and every stored
\* system already there is left as it was.
C20_RunSystemOnlyUnderAutomaticLabel ==
    [][/\ call'.op = "run_system"
          => \A i \in Range(RunsOf(log')) :
                i \in SlotsLabelled(systems', SystemTypeIdLabel(call'.system))
       /\ (call'.op \in {"run_system", "register_system"} /\ ~Known(call'.system))
          => /\ Len(systems') = Len(systems) + 1
             /\ \A i \in DOMAIN systems : systems'[i] = systems[i]
             /\ call'.op = "run_system" => RunsOf(log') = <<Len(systems)>>
             /\ call'.op = "register_system"
                   => systems'[Len(systems')] =
                         [System_initialize(call'.system, world)
                             EXCEPT !.labelled = <<SystemTypeIdLabel(call'.system)>>]]_vars

====
